---------------------------- MODULE Spec2Model ----------------------------
(***************************************************************************)
(* Model of cfzone's recordCollection.go: the record builder (newRecord),  *)
(* the matcher (match), Find / Diff over record collections and the zone   *)
(* loader (parseZone).                                                     *)
(*                                                                         *)
(* Go strings whose characters matter (names, contents) are sequences of   *)
(* one-character strings; type tags ("A", "MX", ...) are atomic strings.   *)
(***************************************************************************)
EXTENDS Integers, Sequences, FiniteSets, TLC

VARIABLES
    \* parseZone
    tokens,      \* the token stream dns.ParseZone delivers
    pos,         \* index of the next token of the stream
    zoneName,    \* parseZone's local zoneName
    records,     \* parseZone's local records
    pc,          \* "idle" | "loop" | "done"
    retName,     \* parseZone's returned zone name
    retRecords,  \* parseZone's returned recordCollection
    retErr,      \* parseZone's returned error
    \* newRecord
    in,          \* the token handed to newRecord
    out,         \* newRecord's result
    bpc,         \* "idle" | "call" | "returned"
    \* Diff
    local,       \* the receiver of Diff
    remote,      \* the argument of Diff
    localOnly,   \* first result of Diff
    remoteOnly,  \* second result of Diff
    dpc          \* "idle" | "call" | "returned"

loadVars  == <<tokens, pos, zoneName, records, pc, retName, retRecords, retErr>>
buildVars == <<in, out, bpc>>
diffVars  == <<local, remote, localOnly, remoteOnly, dpc>>
vars      == <<loadVars, buildVars, diffVars>>

----------------------------------------------------------------------------
(* Bounds of the model.                                                    *)

MaxLabels == 2      \* labels in a domain name
MaxStream == 3      \* tokens in a zone's token stream
MaxColl   == 2      \* records in a collection handed to Diff
MaxTxt    == 2      \* text segments of a TXT token

----------------------------------------------------------------------------
(* Go strings.                                                             *)

Empty == <<>>                    \* ""

RECURSIVE TrimLeft(_, _)
TrimLeft(s, c) ==
    IF Len(s) > 0 /\ Head(s) = c THEN TrimLeft(Tail(s), c) ELSE s

RECURSIVE TrimRight(_, _)
TrimRight(s, c) ==
    IF Len(s) > 0 /\ s[Len(s)] = c
    THEN TrimRight(SubSeq(s, 1, Len(s) - 1), c)
    ELSE s

\* strings.Trim(s, cutset) for a one-character cutset: every leading and
\* every trailing occurrence is removed.
Trim(s, c) == TrimRight(TrimLeft(s, c), c)

\* strings.HasSuffix(s, suffix) for a one-character suffix.
HasSuffix(s, c) == Len(s) > 0 /\ s[Len(s)] = c

RECURSIVE Join(_, _)
\* The strings of a sequence, joined by the string sep.
Join(ss, sep) ==
    IF Len(ss) = 0 THEN Empty
    ELSE IF Len(ss) = 1 THEN ss[1]
    ELSE ss[1] \o sep \o Join(Tail(ss), sep)

HexDigits == <<"0", "1", "2", "3", "4", "5", "6", "7",
               "8", "9", "a", "b", "c", "d", "e", "f">>

RECURSIVE Itoa(_)
\* Decimal rendering of a non-negative integer.
Itoa(n) ==
    IF n < 10 THEN <<HexDigits[n + 1]>>
    ELSE Itoa(n \div 10) \o <<HexDigits[(n % 10) + 1]>>

RECURSIVE Hex(_)
\* Lower-case hexadecimal rendering without leading zeros (appendHex).
Hex(n) ==
    IF n < 16 THEN <<HexDigits[n + 1]>>
    ELSE Hex(n \div 16) \o <<HexDigits[(n % 16) + 1]>>

----------------------------------------------------------------------------
(* net.IP and its String method.  An address is <<>> (nil) or its eight    *)
(* 16-bit groups; an IPv4 address is held in its IPv4-in-IPv6 form, as     *)
(* net.ParseIP returns it.                                                 *)

NilIP == <<>>
\* 65535 = 0xffff closes the v4InV6Prefix.
V4(a, b, c, d) == <<0, 0, 0, 0, 0, 65535, a * 256 + b, c * 256 + d>>

\* ip.To4() # nil
IsV4(ip) ==
    /\ Len(ip) = 8
    /\ \A i \in 1..5 : ip[i] = 0
    /\ ip[6] = 65535

RECURSIVE ZeroRun(_, _)
\* Number of consecutive zero groups of ip from group i on.
ZeroRun(ip, i) ==
    IF i <= Len(ip) /\ ip[i] = 0 THEN 1 + ZeroRun(ip, i + 1) ELSE 0

IPString(ip) ==
    IF Len(ip) = 0 THEN <<"<", "n", "i", "l", ">">>
    ELSE IF IsV4(ip) THEN
        Join(<<Itoa(ip[7] \div 256), Itoa(ip[7] % 256),
               Itoa(ip[8] \div 256), Itoa(ip[8] % 256)>>, <<".">>)
    ELSE
        LET best == CHOOSE n \in 0..8 :
                        /\ \E i \in 1..8 : ZeroRun(ip, i) = n
                        /\ \A i \in 1..8 : ZeroRun(ip, i) <= n
            \* the first longest run of zero groups; a single zero group
            \* is never shortened
            e0   == CHOOSE i \in 1..8 :
                        /\ ZeroRun(ip, i) = best
                        /\ \A j \in 1..(i - 1) : ZeroRun(ip, j) < best
            hex  == [i \in 1..8 |-> Hex(ip[i])]
        IN  IF best <= 1 THEN Join(hex, <<":">>)
            ELSE Join(SubSeq(hex, 1, e0 - 1), <<":">>)
                 \o <<":", ":">>
                 \o Join(SubSeq(hex, e0 + best, 8), <<":">>)

----------------------------------------------------------------------------
(* Errors.  nil is NoError.                                                *)

NoError == [kind |-> "nil", detail |-> "nil"]

\* A syntax error the tokenizer attaches to a token (dns.ParseError).
ParseError(e) == [kind |-> "ParseError", detail |-> e]

\* fmt.Errorf("Record type %T is not supported", in.RR)
UnsupportedRecordType(rrtype) ==
    [kind |-> "UnsupportedRecordType", detail |-> rrtype]

\* errors.New("Zone name not found")
MissingOrigin == [kind |-> "MissingOrigin", detail |-> "Zone name not found"]

----------------------------------------------------------------------------
(* dns.Token: a resource record (RR) or an error.  rrtype is the dynamic   *)
(* type of the RR (dns.A, dns.SOA, ...); the header carries Name and Ttl,   *)
(* and the payload fields a type does not have keep their zero value.      *)

RR(rrtype, name, ttl) ==
    [rrtype |-> rrtype, Name |-> name, Ttl |-> ttl,
     A |-> NilIP, AAAA |-> NilIP, Target |-> Empty,
     Mx |-> Empty, Preference |-> 0, Txt |-> <<>>]

NilRR == RR("nil", Empty, 0)

Token(rr)     == [RR |-> rr, Error |-> NoError]
ErrorToken(e) == [RR |-> NilRR, Error |-> ParseError(e)]

----------------------------------------------------------------------------
(* cloudflare.DNSRecord, with the fields this program reads or writes.     *)
(* ID stands for the provider's bookkeeping fields, which zone files lack. *)

DNSRecord(name, ttl) ==
    [ID |-> "", Type |-> "", Name |-> name, Content |-> Empty,
     Proxied |-> FALSE, TTL |-> ttl, Priority |-> 0]

\* What newRecord returns, a DNSRecord pointer and an error: record is
\* <<>> for a nil pointer, <<r>> otherwise.
Result(rec, err) == [record |-> rec, err |-> err]

\* Variant: Proxied set for every positive TTL.
ProxiedOfPositive(ttl) == ttl >= 1

\* record.Proxied after the "if record.TTL == 1" of newRecord.
ProxiedOf(ttl) == ttl = 1

\* The record newRecord starts from: name trimmed, TTL and Proxied set.
NewHeader(rr) ==
    [DNSRecord(Trim(rr.Name, "."), rr.Ttl) EXCEPT !.Proxied = ProxiedOf(rr.Ttl)]

\* Variant: the CNAME target stored as it stands.
CnameContentKept(target) == target

\* The Content newRecord stores for a CNAME: one trailing dot removed.
CnameContent(target) ==
    IF HasSuffix(target, ".") THEN SubSeq(target, 1, Len(target) - 1)
    ELSE target

\* The Content newRecord stores for a TXT: the first segment, if any.
TxtContent(txt) == IF Len(txt) > 0 THEN txt[1] ELSE Empty

\* The Content newRecord stores for an MX.
MxContent(mx) == Trim(mx, ".")

\* Variant: a type without a case is ignored like NS and SOA.
newRecordLenient(t) ==
    LET rr     == t.RR
        record == NewHeader(rr)
    IN  CASE rr.rrtype \in {"A", "AAAA"} ->
                Result(<<[record EXCEPT
                            !.Content = IPString(IF rr.rrtype = "A"
                                                 THEN rr.A ELSE rr.AAAA),
                            !.Type = rr.rrtype]>>, NoError)
          [] rr.rrtype = "CNAME" ->
                Result(<<[record EXCEPT !.Content = CnameContent(rr.Target),
                                        !.Type = "CNAME"]>>, NoError)
          [] rr.rrtype = "MX" ->
                Result(<<[record EXCEPT !.Content = MxContent(rr.Mx),
                                        !.Priority = rr.Preference,
                                        !.Type = "MX"]>>, NoError)
          [] rr.rrtype = "TXT" ->
                Result(<<[record EXCEPT !.Content = TxtContent(rr.Txt),
                                        !.Type = "TXT"]>>, NoError)
          [] OTHER ->
                Result(<<>>, NoError)

newRecord(t) ==
    LET rr     == t.RR
        record == NewHeader(rr)
    IN  CASE rr.rrtype = "A" ->
                Result(<<[record EXCEPT !.Content = IPString(rr.A),
                                        !.Type = "A"]>>, NoError)
          [] rr.rrtype = "AAAA" ->
                Result(<<[record EXCEPT !.Content = IPString(rr.AAAA),
                                        !.Type = "AAAA"]>>, NoError)
          [] rr.rrtype = "CNAME" ->
                Result(<<[record EXCEPT !.Content = CnameContent(rr.Target),
                                        !.Type = "CNAME"]>>, NoError)
          [] rr.rrtype = "MX" ->
                Result(<<[record EXCEPT !.Content = MxContent(rr.Mx),
                                        !.Priority = rr.Preference,
                                        !.Type = "MX"]>>, NoError)
          [] rr.rrtype = "TXT" ->
                Result(<<[record EXCEPT !.Content = TxtContent(rr.Txt),
                                        !.Type = "TXT"]>>, NoError)
          [] rr.rrtype \in {"NS", "SOA"} ->
                Result(<<>>, NoError)
          [] OTHER ->
                Result(<<>>, UnsupportedRecordType(rr.rrtype))

----------------------------------------------------------------------------
(* match, Find and Diff.                                                   *)

\* Variant: the switch without its MX case.
matchContentNoMx(a, b) ==
    CASE a.Type \in {"A", "AAAA", "CNAME", "TXT"} -> a.Content = b.Content
      [] OTHER -> FALSE

\* The switch that ends match, reached once Type, Name, Proxied and TTL
\* agree.
matchContent(a, b) ==
    CASE a.Type \in {"A", "AAAA", "CNAME", "TXT"} -> a.Content = b.Content
      [] a.Type = "MX" -> a.Content = b.Content /\ a.Priority = b.Priority
      [] OTHER -> FALSE

match(a, b) ==
    IF a.Type # b.Type THEN FALSE
    ELSE IF a.Name # b.Name THEN FALSE
    ELSE IF a.Proxied # b.Proxied THEN FALSE
    ELSE IF a.TTL # b.TTL THEN FALSE
    ELSE matchContent(a, b)

\* Variant: a Find that looks for the needle itself, not for a match.
FindIdentical(c, needle) ==
    IF \E i \in 1..Len(c) : c[i] = needle
    THEN (CHOOSE i \in 1..Len(c) :
              /\ c[i] = needle
              /\ \A j \in 1..(i - 1) : c[j] # needle) - 1
    ELSE -1

\* The index Find returns, 0-based as in the source: the first element
\* matching needle, or -1.
Find(c, needle) ==
    IF \E i \in 1..Len(c) : match(c[i], needle)
    THEN (CHOOSE i \in 1..Len(c) :
              /\ match(c[i], needle)
              /\ \A j \in 1..(i - 1) : ~match(c[j], needle)) - 1
    ELSE -1

RECURSIVE OnlyIn(_, _)
\* One loop of Diff: the elements of c, in order, that Find does not find
\* in other.
OnlyIn(c, other) ==
    IF Len(c) = 0 THEN <<>>
    ELSE LET n == Find(other, Head(c))
         IN  (IF n < 0 THEN <<Head(c)>> ELSE <<>>) \o OnlyIn(Tail(c), other)

\* c.Diff(remote): <<localOnly, remoteOnly>>
Diff(c, rem) == <<OnlyIn(c, rem), OnlyIn(rem, c)>>

----------------------------------------------------------------------------
(* Input domains.                                                          *)

SeqsUpTo(S, n) == UNION {[1..k -> S] : k \in 0..n}

Labels == {<<"a">>, <<"b">>}

RECURSIVE FQDN(_)
\* The absolute name made of the labels ls, each followed by its dot.
FQDN(ls) == IF Len(ls) = 0 THEN Empty ELSE ls[1] \o <<".">> \o FQDN(Tail(ls))

\* The names the tokenizer delivers: the root "." and absolute names.
DomainNames ==
    {<<".">>} \cup {FQDN(ls) : ls \in SeqsUpTo(Labels, MaxLabels) \ {<<>>}}

Ttls == {0, 1, 300}

V4Addrs == {V4(a, 0, 2, d) : a \in {1, 192}, d \in {0, 255}}
V6Addrs == [1..8 -> {0, 43981}] \cup {V4(10, 0, 0, 1)}

TxtSegments == {Empty, <<"a">>, <<"a", ".">>}
Preferences == {10, 20}

\* RR types the builder has no case for.
OtherTypes == {"SRV", "CAA"}

Headers(rrtype) == {RR(rrtype, n, ttl) : n \in DomainNames, ttl \in Ttls}

\* Every error-free token handed to newRecord.
BuildTokens ==
    {Token(rr) : rr \in
        {[h EXCEPT !.A = ip] : h \in Headers("A"), ip \in V4Addrs}
        \cup {[h EXCEPT !.AAAA = ip] : h \in Headers("AAAA"), ip \in V6Addrs}
        \cup {[h EXCEPT !.Target = n] :
                  h \in Headers("CNAME"), n \in DomainNames}
        \cup {[h EXCEPT !.Mx = n, !.Preference = p] :
                  h \in Headers("MX"), n \in DomainNames, p \in Preferences}
        \cup {[h EXCEPT !.Txt = txt] :
                  h \in Headers("TXT"), txt \in SeqsUpTo(TxtSegments, MaxTxt)}
        \cup Headers("NS") \cup Headers("SOA")
        \cup UNION {Headers(ty) : ty \in OtherTypes}}

A_a == [RR("A", <<"a", ".">>, 300) EXCEPT !.A = V4(1, 0, 2, 0)]

\* The tokens zone streams are made of: syntax errors, SOA and NS tokens,
\* tokens of types without a case, and tokens that become records.
LoadTokens ==
    {ErrorToken("e1"), ErrorToken("e2")}
    \cup {Token(RR("SOA", n, 300)) : n \in {<<".">>, <<"a", ".">>, <<"b", ".">>}}
    \cup {Token(RR("NS", <<"a", ".">>, 300))}
    \cup {Token(RR(ty, <<"a", ".">>, 300)) : ty \in OtherTypes}
    \cup {Token(A_a),
          Token([A_a EXCEPT !.Ttl = 1]),
          Token([RR("CNAME", <<"b", ".">>, 0) EXCEPT !.Target = <<"a", ".">>]),
          Token([RR("MX", <<"a", ".">>, 300) EXCEPT
                     !.Mx = <<"b", ".">>, !.Preference = 10]),
          Token([RR("TXT", <<"a", ".">>, 300) EXCEPT !.Txt = <<<<"a", ".">>>>])}

\* The tokens local collections handed to Diff are built from.
DiffTokens ==
    {Token(A_a),
     Token([A_a EXCEPT !.A = V4(1, 0, 2, 255)]),
     Token([A_a EXCEPT !.Name = <<"b", ".">>]),
     Token([A_a EXCEPT !.Ttl = 1]),
     Token([RR("MX", <<"a", ".">>, 300) EXCEPT
                !.Mx = <<"b", ".">>, !.Preference = 10]),
     Token([RR("MX", <<"a", ".">>, 300) EXCEPT
                !.Mx = <<"b", ".">>, !.Preference = 20])}

\* Local records come out of the zone loader.
LocalRecords == {newRecord(t).record[1] : t \in DiffTokens}

\* Remote records come from the provider: records like the local ones,
\* with or without provider bookkeeping, records of types the zone loader
\* never builds, and unproxied records with the automatic TTL of 1.
RemoteRecords ==
    LocalRecords
    \cup {[r EXCEPT !.ID = "cf1"] :
              r \in {newRecord(Token(A_a)).record[1]}}
    \cup {[newRecord(Token(A_a)).record[1] EXCEPT !.Type = "SRV", !.ID = "cf2"],
          [newRecord(Token(A_a)).record[1] EXCEPT !.TTL = 1, !.ID = "cf3"]}

----------------------------------------------------------------------------
(* Values of the variables a specification does not use.                   *)

LoadIdle ==
    /\ tokens = <<>> /\ pos = 1 /\ zoneName = Empty /\ records = <<>>
    /\ pc = "idle" /\ retName = Empty /\ retRecords = <<>> /\ retErr = NoError

BuildIdle ==
    /\ in = Token(NilRR) /\ out = Result(<<>>, NoError) /\ bpc = "idle"

DiffIdle ==
    /\ local = <<>> /\ remote = <<>> /\ localOnly = <<>> /\ remoteOnly = <<>>
    /\ dpc = "idle"

----------------------------------------------------------------------------
(* parseZone: one action per iteration of its loop over the token stream,  *)
(* and one for the code after the loop.                                    *)

\* Variant: the first SOA token's name is kept.
ZoneNameKeptFirst(t) ==
    IF t.RR.rrtype = "SOA" /\ zoneName = Empty
    THEN Trim(t.RR.Name, ".")
    ELSE zoneName

\* zoneName after the SOA test of an iteration on token t.
ZoneNameAfter(t) ==
    IF t.RR.rrtype = "SOA" THEN Trim(t.RR.Name, ".") ELSE zoneName

\* return "", recordCollection{}, err
ReturnError(err) ==
    /\ pc' = "done"
    /\ retName' = Empty
    /\ retRecords' = <<>>
    /\ retErr' = err

\* Variant: a syntax error returned with what was accumulated so far.
TokenErrorPartial ==
    /\ pc = "loop" /\ pos <= Len(tokens)
    /\ tokens[pos].Error # NoError
    /\ pc' = "done"
    /\ retName' = zoneName
    /\ retRecords' = records
    /\ retErr' = tokens[pos].Error
    /\ UNCHANGED <<tokens, pos, zoneName, records, buildVars, diffVars>>

\* The token carries a syntax error.
TokenError ==
    /\ pc = "loop" /\ pos <= Len(tokens)
    /\ tokens[pos].Error # NoError
    /\ ReturnError(tokens[pos].Error)
    /\ UNCHANGED <<tokens, pos, zoneName, records, buildVars, diffVars>>

\* newRecord fails on the token.
TokenUnsupported ==
    /\ pc = "loop" /\ pos <= Len(tokens)
    /\ tokens[pos].Error = NoError
    /\ newRecord(tokens[pos]).err # NoError
    /\ zoneName' = ZoneNameAfter(tokens[pos])
    /\ ReturnError(newRecord(tokens[pos]).err)
    /\ UNCHANGED <<tokens, pos, records, buildVars, diffVars>>

\* newRecord returns no record and no error.
TokenSkipped ==
    /\ pc = "loop" /\ pos <= Len(tokens)
    /\ tokens[pos].Error = NoError
    /\ newRecord(tokens[pos]).err = NoError
    /\ newRecord(tokens[pos]).record = <<>>
    /\ zoneName' = ZoneNameAfter(tokens[pos])
    /\ pos' = pos + 1
    /\ UNCHANGED <<tokens, records, pc, retName, retRecords, retErr,
                   buildVars, diffVars>>

\* newRecord returns a record, which is appended.
TokenRecord ==
    /\ pc = "loop" /\ pos <= Len(tokens)
    /\ tokens[pos].Error = NoError
    /\ newRecord(tokens[pos]).err = NoError
    /\ newRecord(tokens[pos]).record # <<>>
    /\ zoneName' = ZoneNameAfter(tokens[pos])
    /\ records' = Append(records, newRecord(tokens[pos]).record[1])
    /\ pos' = pos + 1
    /\ UNCHANGED <<tokens, pc, retName, retRecords, retErr,
                   buildVars, diffVars>>

\* Variant: the missing zone name reported with the records accumulated.
EndNoZoneNamePartial ==
    /\ pc = "loop" /\ pos > Len(tokens)
    /\ zoneName = Empty
    /\ pc' = "done"
    /\ retName' = Empty
    /\ retRecords' = records
    /\ retErr' = MissingOrigin
    /\ UNCHANGED <<tokens, pos, zoneName, records, buildVars, diffVars>>

\* The stream ended with zoneName still "".
EndNoZoneName ==
    /\ pc = "loop" /\ pos > Len(tokens)
    /\ zoneName = Empty
    /\ ReturnError(MissingOrigin)
    /\ UNCHANGED <<tokens, pos, zoneName, records, buildVars, diffVars>>

\* The stream ended with a zone name.
EndOfStream ==
    /\ pc = "loop" /\ pos > Len(tokens)
    /\ zoneName # Empty
    /\ pc' = "done"
    /\ retName' = zoneName
    /\ retRecords' = records
    /\ retErr' = NoError
    /\ UNCHANGED <<tokens, pos, zoneName, records, buildVars, diffVars>>

LoadInit ==
    /\ tokens \in SeqsUpTo(LoadTokens, MaxStream)
    /\ pos = 1 /\ zoneName = Empty /\ records = <<>> /\ pc = "loop"
    /\ retName = Empty /\ retRecords = <<>> /\ retErr = NoError
    /\ BuildIdle /\ DiffIdle

LoadNext ==
    \/ TokenError
    \/ TokenUnsupported
    \/ TokenSkipped
    \/ TokenRecord
    \/ EndNoZoneName
    \/ EndOfStream

SpecLoad == LoadInit /\ [][LoadNext]_vars

----------------------------------------------------------------------------
(* newRecord on one token.                                                 *)

\* A supported type: a record and no error.
BuildRecord ==
    /\ bpc = "call"
    /\ newRecord(in).record # <<>>
    /\ out' = newRecord(in)
    /\ bpc' = "returned"
    /\ UNCHANGED <<in, loadVars, diffVars>>

\* NS and SOA: no record and no error.
BuildIgnored ==
    /\ bpc = "call"
    /\ newRecord(in).record = <<>>
    /\ newRecord(in).err = NoError
    /\ out' = newRecord(in)
    /\ bpc' = "returned"
    /\ UNCHANGED <<in, loadVars, diffVars>>

\* No case for the token's type.
BuildUnsupported ==
    /\ bpc = "call"
    /\ newRecord(in).err # NoError
    /\ out' = newRecord(in)
    /\ bpc' = "returned"
    /\ UNCHANGED <<in, loadVars, diffVars>>

BuildInit ==
    /\ in \in BuildTokens
    /\ out = Result(<<>>, NoError) /\ bpc = "call"
    /\ LoadIdle /\ DiffIdle

BuildNext == BuildRecord \/ BuildIgnored \/ BuildUnsupported

SpecBuild == BuildInit /\ [][BuildNext]_vars

----------------------------------------------------------------------------
(* local.Diff(remote).                                                     *)

DoDiff ==
    /\ dpc = "call"
    /\ localOnly' = Diff(local, remote)[1]
    /\ remoteOnly' = Diff(local, remote)[2]
    /\ dpc' = "returned"
    /\ UNCHANGED <<local, remote, loadVars, buildVars>>

DiffInit ==
    /\ local \in SeqsUpTo(LocalRecords, MaxColl)
    /\ remote \in SeqsUpTo(RemoteRecords, MaxColl)
    /\ localOnly = <<>> /\ remoteOnly = <<>> /\ dpc = "call"
    /\ LoadIdle /\ BuildIdle

DiffNext == DoDiff

SpecDiff == DiffInit /\ [][DiffNext]_vars

----------------------------------------------------------------------------
(* The program: one of the three operations, on any of its inputs.         *)

Init == LoadInit \/ BuildInit \/ DiffInit

Next == LoadNext \/ BuildNext \/ DiffNext

Spec == Init /\ [][Next]_vars

----------------------------------------------------------------------------
(* Vocabulary of the properties.                                           *)

Range(q) == {q[i] : i \in 1..Len(q)}

SupportedTypes == {"A", "AAAA", "CNAME", "MX", "TXT", "NS", "SOA"}

HasParseError(q)  == \E i \in 1..Len(q) : q[i].Error # NoError
HasUnsupported(q) ==
    \E i \in 1..Len(q) :
        q[i].Error = NoError /\ q[i].RR.rrtype \notin SupportedTypes
SOAIndices(q) ==
    {i \in 1..Len(q) : q[i].Error = NoError /\ q[i].RR.rrtype = "SOA"}

\* A name with one trailing dot removed, if it has one.
StripDot(name) ==
    IF Len(name) > 0 /\ name[Len(name)] = "."
    THEN SubSeq(name, 1, Len(name) - 1)
    ELSE name

RECURSIVE BuiltRecords(_)
\* The records of the tokens of q that are neither NS nor SOA, in order.
BuiltRecords(q) ==
    IF Len(q) = 0 THEN <<>>
    ELSE (IF Head(q).RR.rrtype \in {"NS", "SOA"} THEN <<>>
          ELSE newRecord(Head(q)).record) \o BuiltRecords(Tail(q))

\* r is a reordering of l.
IsReordering(l, r) ==
    /\ Len(l) = Len(r)
    /\ \E p \in [1..Len(l) -> 1..Len(l)] :
           /\ \A i, j \in 1..Len(l) : p[i] = p[j] => i = j
           /\ \A i \in 1..Len(l) : r[i] = l[p[i]]

EndsWithDot(str) == Len(str) > 0 /\ str[Len(str)] = "."

----------------------------------------------------------------------------
(* Properties.                                                             *)

\* C1: Diff returns as localOnly exactly the records l of local, in local's
\* order and with duplicates kept, that no record r of remote matches
\* (match(r, l)), and as remoteOnly exactly the records r of remote, in
\* remote's order, that no record l of local matches (match(l, r)).
C1_DiffIsDifference ==
    dpc = "returned" =>
        /\ localOnly = SelectSeq(local,
               LAMBDA l : ~\E i \in 1..Len(remote) : match(remote[i], l))
        /\ remoteOnly = SelectSeq(remote,
               LAMBDA r : ~\E i \in 1..Len(local) : match(local[i], r))

\* A Diff where each side holds a record with an equivalent on the other
\* side, carrying provider bookkeeping there, and a record without one.
C1_Witness ==
    /\ dpc = "returned"
    /\ Len(local) = 2 /\ Len(localOnly) = 1
    /\ Len(remote) = 2 /\ Len(remoteOnly) = 1
    /\ \E i \in 1..2 : remote[i].ID # "" /\ Find(local, remote[i]) >= 0

\* C2: a stream without parse error and without unsupported type that
\* holds an SOA token loads successfully: the origin is an SOA token's
\* header name without its trailing dot, the collection is the records
\* of the non-NS, non-SOA tokens in stream order.
C2_LoadSucceedsWithSOA ==
    (/\ pc = "done"
     /\ ~HasParseError(tokens) /\ ~HasUnsupported(tokens)
     /\ SOAIndices(tokens) # {}) =>
        /\ retErr = NoError
        /\ \E i \in SOAIndices(tokens) : retName = StripDot(tokens[i].RR.Name)
        /\ retRecords = BuiltRecords(tokens)

\* C3, as stated: every stream without SOA token ends in MissingOrigin,
\* after the whole stream, with no origin and no collection.
C3_NoSOAAlwaysMissingOrigin ==
    (pc = "done" /\ SOAIndices(tokens) = {}) =>
        /\ retErr = MissingOrigin
        /\ pos = Len(tokens) + 1
        /\ retName = Empty /\ retRecords = <<>>

\* C3, amended: every stream without SOA token, without parse error and
\* without token of an unsupported type ends in MissingOrigin, after the
\* whole stream, with no origin and no collection.
C3_NoSOAMissingOrigin ==
    (/\ pc = "done"
     /\ SOAIndices(tokens) = {}
     /\ ~HasParseError(tokens) /\ ~HasUnsupported(tokens)) =>
        /\ retErr = MissingOrigin
        /\ pos = Len(tokens) + 1
        /\ retName = Empty /\ retRecords = <<>>

\* A load without SOA that accumulated records and returned none of them.
C3_Witness ==
    /\ pc = "done" /\ retErr = MissingOrigin
    /\ SOAIndices(tokens) = {}
    /\ Len(records) >= 2 /\ retRecords = <<>>

\* C4: a step of the load on a token with a parse error ends the load with
\* that error, an empty origin and an empty collection, whatever was
\* accumulated; no token after it is consumed or built, and a load that
\* ended takes no further step.
C4_ParseErrorFailsFast ==
    [][/\ (pc = "loop" /\ pos <= Len(tokens)
            /\ tokens[pos].Error # NoError) =>
               /\ pc' = "done"
               /\ retErr' = tokens[pos].Error
               /\ retName' = Empty /\ retRecords' = <<>>
               /\ pos' = pos /\ records' = records
       /\ pc # "done"]_vars

\* A load that ended on a parse error after it built a record, with a
\* token left in the stream.
C4_Witness ==
    /\ pc = "done" /\ retErr.kind = "ParseError"
    /\ records # <<>> /\ retRecords = <<>>
    /\ pos < Len(tokens)

\* C5: a step of the load on a token whose type is outside A, AAAA, CNAME,
\* MX, TXT, NS, SOA ends the load with an UnsupportedRecordType error
\* naming the type, an empty origin and an empty collection; a step on an
\* NS or SOA token appends no record, raises no error and moves on.
C5_UnsupportedAbortsIgnoredContinue ==
    [][(pc = "loop" /\ pos <= Len(tokens)
        /\ tokens[pos].Error = NoError) =>
           /\ tokens[pos].RR.rrtype \notin SupportedTypes =>
                  /\ pc' = "done"
                  /\ retErr' = UnsupportedRecordType(tokens[pos].RR.rrtype)
                  /\ retName' = Empty /\ retRecords' = <<>>
                  /\ pos' = pos /\ records' = records
           /\ tokens[pos].RR.rrtype \in {"NS", "SOA"} =>
                  /\ pc' = "loop" /\ pos' = pos + 1
                  /\ records' = records
                  /\ retErr' = NoError]_vars

\* A load that passed an SOA token, built a record and then ended on a
\* token of an unsupported type.
C5_Witness ==
    /\ pc = "done" /\ retErr.kind = "UnsupportedRecordType"
    /\ zoneName # Empty /\ records # <<>>
    /\ retName = Empty /\ retRecords = <<>>

\* C6: match(r, r) holds for every record r of a local or of a remote
\* collection.
C6_MatchReflexive ==
    dpc = "returned" =>
        \A r \in Range(local) \cup Range(remote) : match(r, r)

C8_ProxiedIffTTLOne ==
    /\ (bpc = "returned" /\ out.record # <<>>) =>
           /\ out.record[1].TTL = in.RR.Ttl
           /\ out.record[1].Proxied <=> (in.RR.Ttl = 1)
    /\ \A r \in Range(records) \cup Range(retRecords) :
           r.Proxied <=> (r.TTL = 1)
    /\ \A i \in 1..Len(retRecords) :
           \E j \in 1..Len(tokens) : retRecords[i].TTL = tokens[j].RR.Ttl

\* A successful load that returns a proxied and an unproxied record.
C8_Witness ==
    /\ pc = "done" /\ retErr = NoError
    /\ \E r \in Range(retRecords) : r.Proxied
    /\ \E r \in Range(retRecords) : ~r.Proxied

C10_LastSOAWins ==
    (/\ pc = "done"
     /\ ~HasParseError(tokens) /\ ~HasUnsupported(tokens)
     /\ Cardinality(SOAIndices(tokens)) > 1) =>
        LET last == CHOOSE i \in SOAIndices(tokens) :
                        \A j \in SOAIndices(tokens) : j <= i
        IN  /\ retName = Trim(tokens[last].RR.Name, ".")
            /\ records = BuiltRecords(tokens)
            /\ retErr = NoError => retRecords = BuiltRecords(tokens)

\* A successful load of a stream with two SOA tokens of different names
\* around a record.
C10_Witness ==
    /\ pc = "done" /\ retErr = NoError
    /\ Len(tokens) = 3
    /\ SOAIndices(tokens) = {1, 3}
    /\ tokens[1].RR.Name # tokens[3].RR.Name
    /\ retName = <<"b">>
    /\ Len(retRecords) = 1

=============================================================================
